---------------------------- MODULE Spec2Model ----------------------------
(***************************************************************************)
(* Model of the Taskmaster orchestrator (taskmaster/__init__.py).          *)
(*                                                                         *)
(* A run builds a task graph from the job list (list_tasks), then loops:   *)
(* it computes the ready tasks (is_ready), runs them as one wave of        *)
(* coroutines (run_task) under a semaphore (gather_with_concurrency) and   *)
(* recomputes; when nothing is ready the unassigned tasks are swept to     *)
(* skipped.  A coroutine is cut at its await points; child processes exit  *)
(* on their own (ProcExit).  An exception that leaves a coroutine ends the *)
(* wave: asyncio.run cancels every coroutine that is still pending.        *)
(***************************************************************************)
EXTENDS Integers, Sequences, FiniteSets, TLC

\* ------------------------------------------------------------------ bounds
NumScripts == 3          \* scripts are 1..NumScripts
MaxMaxTasks == 2         \* max_tasks ranges over 1..MaxMaxTasks
MaxRequeues == 1         \* payloads that put a task back to unassigned, per run
MaxRefs == 4             \* script references in a job specification (SpecGraph)
NumDBTasks == 3          \* DBLoadTasks of one table and source (SpecStore)
MaxCalls == 5            \* calls of DBLoadTask methods (SpecStore)

Scripts == 1..NumScripts

Range(s) == {s[i] : i \in DOMAIN s}

SeqFromTo(a, b) == [i \in 1..(b - a + 1) |-> a + i - 1]

\* --------------------------------------------------------------- job specs
\* A job is a sequence of steps, a step a sequence of scripts.
FanJobs == << << <<1>>, SeqFromTo(2, NumScripts) >> >>
ChainJobs == << [i \in 1..NumScripts |-> <<i>>] >>
FlatJobs == << << SeqFromTo(1, NumScripts) >> >>
IndepJobs == << << <<1>>, <<2>> >>, << SeqFromTo(3, NumScripts) >> >>
SharedJobs == << << <<1>>, SeqFromTo(3, NumScripts) >>, << <<2>>, <<NumScripts>> >> >>
JoinJobs == << << <<1, 2>>, SeqFromTo(3, NumScripts) >> >>

JobSpecs == {FanJobs, ChainJobs, FlatJobs, IndepJobs, SharedJobs, JoinJobs}

\* Every job specification with at most k script references: a sequence of
\* jobs, each a non-empty sequence of steps, each a non-empty sequence of
\* scripts.  A specification grows by a new job, a new step in the last
\* job, or a new script in the last step.
RECURSIVE job_specs(_)
job_specs(k) ==
    IF k = 0 THEN {<<>>}
    ELSE LET S == job_specs(k - 1)
             T == S \ {<<>>}
             add_step(js, sc) == [js EXCEPT ![Len(js)] = Append(@, <<sc>>)]
             add_script(js, sc) ==
                 LET job == js[Len(js)]
                 IN [js EXCEPT ![Len(js)] =
                        [job EXCEPT ![Len(job)] = Append(@, sc)]]
         IN S \cup {Append(js, << <<sc>> >>) : js \in S, sc \in Scripts}
              \cup {add_step(js, sc) : js \in T, sc \in Scripts}
              \cup {add_script(js, sc) : js \in T, sc \in Scripts}

\* ----------------------------------------------------------------- helpers
RECURSIVE get_uniq_from(_, _, _)
get_uniq_from(items, i, out) ==
    IF i > Len(items) THEN out
    ELSE get_uniq_from(items, i + 1,
                       IF items[i] \in Range(out) THEN out ELSE Append(out, items[i]))

get_uniq_keep(items) == items

get_uniq(items) == get_uniq_from(items, 1, <<>>)

RECURSIVE concat_all(_, _, _)
concat_all(f, s, i) ==
    IF i > Len(s) THEN <<>> ELSE f[s[i]] \o concat_all(f, s, i + 1)

\* get_descendents(t): the children, then each child's descendants (with
\* repetitions, as the code builds it).  depth bounds the recursion on the
\* acyclic graphs of JobSpecs.
RECURSIVE get_descendents_d(_, _, _)
get_descendents_d(ch, t, depth) ==
    IF depth = 0 THEN <<>>
    ELSE ch[t] \o concat_all([c \in Scripts |-> get_descendents_d(ch, c, depth - 1)], ch[t], 1)

get_descendents(ch, t) == get_descendents_d(ch, t, NumScripts)

\* get_ancestors(t): the parents, then each parent's ancestors
RECURSIVE get_ancestors_d(_, _, _)
get_ancestors_d(par, t, depth) ==
    IF depth = 0 THEN <<>>
    ELSE par[t] \o concat_all([p \in Scripts |-> get_ancestors_d(par, p, depth - 1)], par[t], 1)

get_ancestors(par, t) == get_ancestors_d(par, t, NumScripts)

\* get_ancestors(t) has no base case but "no parents": with depth = NumScripts
\* this is TRUE iff the calls nest deeper than the number of tasks, that is,
\* iff a cycle is reachable and the recursion never returns (RecursionError).
RECURSIVE get_ancestors_overflows(_, _, _)
get_ancestors_overflows(par, t, depth) ==
    IF depth = 0 THEN TRUE
    ELSE \E i \in DOMAIN par[t] : get_ancestors_overflows(par, par[t][i], depth - 1)

\* -------------------------------------------------------------- list_tasks
EmptyGraph ==
    [order |-> <<>>,
     parents |-> [s \in Scripts |-> <<>>],
     children |-> [s \in Scripts |-> <<>>]]

\* tasks.get(script) or make_task(job, script); tasks[script] = task
RECURSIVE add_scripts(_, _, _)
add_scripts(order, step, i) ==
    IF i > Len(step) THEN order
    ELSE add_scripts(IF step[i] \in Range(order) THEN order ELSE Append(order, step[i]),
                     step, i + 1)

\* one step of a job: register its tasks, then link prev -> curr
link_step(g, prev, curr) ==
    [order |-> add_scripts(g.order, curr, 1),
     parents |-> [s \in Scripts |->
                    IF s \in Range(curr) THEN get_uniq(g.parents[s] \o prev)
                    ELSE g.parents[s]],
     children |-> [s \in Scripts |->
                    IF s \in Range(prev) THEN get_uniq(g.children[s] \o curr)
                    ELSE g.children[s]]]

RECURSIVE job_steps(_, _, _, _)
job_steps(g, steps, i, curr) ==
    IF i > Len(steps) THEN g
    ELSE job_steps(link_step(g, curr, steps[i]), steps, i + 1, steps[i])

RECURSIVE list_tasks_from(_, _, _)
list_tasks_from(g, jobs, j) ==
    IF j > Len(jobs) THEN g
    ELSE list_tasks_from(job_steps(g, jobs[j], 1, <<>>), jobs, j + 1)

list_tasks(js) == list_tasks_from(EmptyGraph, js, 1)

\* ------------------------------------------------------------ filter_tasks
\* the loop over tasks: each named task followed by its ancestors
RECURSIVE select_tasks(_, _, _)
select_tasks(g, only, i) ==
    IF i > Len(g.order) THEN <<>>
    ELSE (IF g.order[i] \in only
          THEN <<g.order[i]>> \o get_ancestors(g.parents, g.order[i])
          ELSE <<>>) \o select_tasks(g, only, i + 1)

\* filter_tasks does not return: get_ancestors of a named task recurses
\* without end
filter_tasks_raises(g, only) ==
    \E t \in Range(g.order) \cap only : get_ancestors_overflows(g.parents, t, NumScripts)

filter_tasks(g, only) ==
    LET selected == get_uniq(select_tasks(g, only, 1))
    IN [order |-> selected,
        parents |-> g.parents,
        children |-> [s \in Scripts |->
                        IF s \in Range(selected)
                        THEN SelectSeq(g.children[s], LAMBDA c : c \in Range(selected))
                        ELSE g.children[s]]]

\* ------------------------------------------------------------ result block
\* What a child process wrote on stdout: block says whether the text holds a
\* "== RESULT START ==\n<json object>\n== RESULT END ==" block, keys/status
\* are the payload's fields the model follows.
PayloadStatuses == {"success", "skipped", "error", "unassigned"}

NoBlock == [block |-> FALSE, keys |-> {}, status |-> "-"]

Stdouts ==
    {NoBlock, [block |-> TRUE, keys |-> {}, status |-> "-"]}
    \cup {[block |-> TRUE, keys |-> {"status"}, status |-> s] : s \in PayloadStatuses}

\* read_result(raw): re.search(...)[1] and json.loads raise when there is no
\* well-formed block (ok = FALSE), otherwise the payload is returned.
read_result(raw) == [ok |-> raw.block, keys |-> raw.keys, status |-> raw.status]

on_task_complete_success(cur, r) == "success"

\* on_task_complete: t.update(r) -- the payload's status field, when there
\* is one, replaces the task's status; nothing else sets it.
on_task_complete(cur, r) == IF "status" \in r.keys THEN r.status ELSE cur

on_task_fail_keep(cur) == cur

\* on_task_fail: t["status"] = "failed"
on_task_fail(cur) == "failed"

task_fail_raises_always(frc) == TRUE

task_fail_raises_forced(frc) == frc

\* run_task: "if not forced: raise" after on_task_fail
task_fail_raises(frc) == ~frc

exit_ok_any(rc) == TRUE

\* run_task: "assert proc.returncode == 0"
exit_ok(rc) == rc = 0

\* ---------------------------------------------------------------- is_ready
\* is_changed(t): the comparison with last_run is commented out in the
\* source; the function returns True whatever the fingerprints are.
is_changed(t, fp) == TRUE

parents_ok_first(par, st, t) == \A i \in DOMAIN par[t] \cap {1} : st[par[t][i]] = "success"

parents_ok_started(par, st, t) == \A i \in DOMAIN par[t] : st[par[t][i]] # "unassigned"

\* all parents have status success (is_ready, the loop over t["parents"])
parents_ok(par, st, t) == \A i \in DOMAIN par[t] : st[par[t][i]] = "success"

already_ran_never(s) == FALSE

\* is_ready: t["status"] != "unassigned" -- already ran or running
already_ran(s) == s # "unassigned"

\* is_ready(t, forced) on the statuses st: the answer and the statuses it
\* leaves (the unchanged branch writes t and its descendants).
is_ready(g, st, t, frc, fp) ==
    IF already_ran(st[t]) THEN [ready |-> FALSE, status |-> st]
    ELSE IF ~parents_ok(g.parents, st, t) THEN [ready |-> FALSE, status |-> st]
    ELSE IF frc \/ is_changed(t, fp) THEN [ready |-> TRUE, status |-> st]
    ELSE [ready |-> FALSE,
          status |-> [s \in Scripts |->
                        IF s = t \/ s \in Range(get_descendents(g.children, t))
                        THEN "unchanged" ELSE st[s]]]

\* ready = [t for t in tasks if self.is_ready(t, forced)]
RECURSIVE ready_list(_, _, _, _, _, _)
ready_list(g, st, i, acc, frc, fp) ==
    IF i > Len(g.order) THEN [ready |-> acc, status |-> st]
    ELSE LET r == is_ready(g, st, g.order[i], frc, fp)
         IN ready_list(g, r.status, i + 1,
                       IF r.ready THEN Append(acc, g.order[i]) ELSE acc, frc, fp)

skip_none(g, st) == st

skip_not_success(g, st) ==
    [s \in Scripts |-> IF s \in Range(g.order) /\ st[s] # "success"
                       THEN "skipped" ELSE st[s]]

\* for t in tasks: if t["status"] == "unassigned": t["status"] = "skipped"
skip_outstanding(g, st) ==
    [s \in Scripts |-> IF s \in Range(g.order) /\ st[s] = "unassigned"
                       THEN "skipped" ELSE st[s]]

\* ------------------------------------------------------------------- state
VARIABLES
    jobs,         \* self.jobs: the job specification
    only_run,     \* run(only_run = ...): set of scripts, {} for None
    graph,        \* self.tasks: order, parents, children (list_tasks)
    forced,       \* run(forced = ...)
    max_tasks,    \* run(max_tasks = ...)
    fpSame,       \* fpSame[t]: t's input fingerprint equals its last run's
    status,       \* t["status"]
    runPc,        \* "new" (before __init__), run(): "listing" (in list_tasks), "raised" (left by list_tasks'
                  \* exception), "loop", "wave" (in asyncio.run), "cancelling", "done"
    run_status,   \* run_status of run()
    taskPc,       \* position of the coroutine run_task(t) of the current wave
    queue,        \* coroutines of the wave that wait for the semaphore, in order
    semaphore,    \* value of the wave's asyncio.Semaphore
    pendingExc,   \* first exception that left a coroutine of the wave
    proc,         \* run_task's local proc: "none", "alive", "exited"
    returncode,   \* proc.returncode (None while the child is alive)
    stdout,       \* what the exited child wrote
    spawnCount,   \* number of child processes spawned for t in this run
    requeues,     \* number of payloads with status unassigned so far
    failedExit,   \* failedExit[t]: a child of t has exited with a non-zero code
                  \* without having been sent terminate()
    orphans,      \* children still alive whose run_task coroutine is over
    auto,         \* run(auto = ...): unattended mode
    log_db,       \* self.log_db is configured
    missing,      \* scripts that are not a file under scripts_path
    badExt,       \* scripts whose extension is neither py nor r
    run_log,      \* self.run_log: keys present, and the fields the model reads
    storeRows,    \* rows of the run log table with this run_name
    deleted,      \* rows of the run log table deleted by this Taskmaster
    cards,        \* number of cards passed to send_card
    dump,         \* self.dump: the task whose failure details are kept, or None
    raised,       \* exception that left run() to its caller
    store_status, \* DBLoadTask k: self.log["store_status"]
    log_hash,     \* self.log["hash"], 0 for NULL
    stored_at,    \* self.log["stored_at"] as a logical time, 0 for NULL
    local_file,   \* hash of the local file k's store() is given, 0: no such file
    uploads,      \* number of files hudkeep.store has stored in the blob
    log_writes,   \* number of set_log calls (UPDATEs of the task log)
    store_call,   \* task and forced argument of the last call, if a store()
    store_ret,    \* what the last call returned, if a store()
    store_calls,  \* number of store() calls so far
    load_status,  \* load_status of each DBLoadTask's log row
    loads,        \* number of times a loader was invoked
    load_call,    \* task and forced argument of the last call, if a load()
    load_ret,     \* what the last call returned, if a load()
    load_calls,   \* number of load() calls so far
    dumped,       \* task and status the last call printed, if a dump_result()
    task,         \* a task dict: script, status, parents, children, rows
    result,       \* the payload read from the task's stdout
    merged        \* on_task_complete has merged the payload into the task

vars == <<jobs, only_run, graph, forced, max_tasks, fpSame, status, runPc, run_status, taskPc,
          queue, semaphore, pendingExc, proc, returncode, stdout, spawnCount, requeues,
          failedExit, orphans, auto, log_db, missing, badExt, run_log, storeRows,
          deleted, cards, dump, raised, store_status, log_hash, stored_at, local_file,
          uploads, log_writes, store_call, store_ret, store_calls, load_status,
          loads, load_call, load_ret, load_calls, dumped, task, result, merged>>

inputs == <<jobs, only_run, graph, forced, max_tasks, fpSame, auto, log_db, missing, badExt>>
endVars == <<run_log, storeRows, deleted, cards, raised>>
dbload == <<store_status, log_hash, stored_at, local_file, uploads, log_writes,
            store_call, store_ret, store_calls, load_status, loads, load_call,
            load_ret, load_calls, dumped>>

DBTasks == 1..NumDBTasks
Hashes == {1, 2}

\* no call was made, nothing was printed
NoCall == [task |-> 0, forced |-> FALSE]
NoPayload == [task |-> 0, status |-> "none"]

\* no DBLoadTask exists
NoDBLoadTask ==
    /\ store_status = [k \in DBTasks |-> "None"]
    /\ log_hash = [k \in DBTasks |-> 0]
    /\ stored_at = [k \in DBTasks |-> 0]
    /\ local_file = [k \in DBTasks |-> 0]
    /\ uploads = 0
    /\ log_writes = 0
    /\ store_call = NoCall
    /\ store_ret = "none"
    /\ store_calls = 0
    /\ load_status = [k \in DBTasks |-> "None"]
    /\ loads = 0
    /\ load_call = NoCall
    /\ load_ret = "none"
    /\ load_calls = 0
    /\ dumped = NoPayload
procVars == <<proc, returncode, stdout, requeues, failedExit, orphans>>
merging == <<task, result, merged>>

None == -1

\* no payload is being merged
NoMerge ==
    /\ task = [script |-> 0, status |-> "unassigned", parents |-> <<>>,
               children |-> <<>>, rows |-> None]
    /\ result = [keys |-> {}, script |-> 0, status |-> "-", parents |-> <<>>,
                 children |-> <<>>, rows |-> None]
    /\ merged = FALSE

\* ------------------------------------------------------------------ run log
\* self.run_log after __init__: an empty dict
EmptyLog ==
    [keys |-> {}, status |-> "-", tasks_count |-> 0,
     tasks_succeeded |-> 0, tasks_failed |-> 0, tasks_skipped |-> 0,
     run_args |-> [auto |-> FALSE, forced |-> FALSE, only_run |-> {}, max_tasks |-> 0]]

\* the parameters of simple_run_card, all without default
CardKeys ==
    {"run_name", "run_args", "jobs_count", "tasks_count", "tasks_succeeded",
     "tasks_failed", "tasks_skipped", "status", "started_at", "finished_at"}

\* sum([t["status"] == v for t in tasks])
count_status(g, st, v) == Cardinality({t \in Range(g.order) : st[t] = v})

\* create_run_log: "if not self.log_db: return", else the row that is
\* inserted and merged into self.run_log
start_log(db, log) ==
    IF ~db THEN log
    ELSE [log EXCEPT !.keys = @ \cup {"run_name", "status", "started_at"},
                     !.status = "started"]

\* the dict that run(auto = a, forced = f, only_run = o, max_tasks = m)
\* writes as run_args: its "auto" entry is given the value of forced
run_args(a, f, o, m) == [auto |-> f, forced |-> f, only_run |-> o, max_tasks |-> m]

\* set_run_log at the start of run(): run_args, status, jobs_count,
\* tasks_count; nothing without a log database
prologue_log(db, log, g, args) ==
    IF ~db THEN log
    ELSE [log EXCEPT !.keys = @ \cup {"run_args", "status", "jobs_count", "tasks_count"},
                     !.run_args = args,
                     !.status = "running",
                     !.tasks_count = Len(g.order)]

\* set_run_log in run()'s finally block: status, the three counts and
\* finished_at; nothing without a log database
final_log(db, log, rs, g, st) ==
    IF ~db THEN log
    ELSE [log EXCEPT !.keys = @ \cup {"status", "tasks_succeeded", "tasks_failed",
                                     "tasks_skipped", "finished_at"},
                     !.status = rs,
                     !.tasks_succeeded = count_status(g, st, "success"),
                     !.tasks_failed = count_status(g, st, "failed"),
                     !.tasks_skipped = count_status(g, st, "skipped")]

\* on_run_complete: simple_run_card(**self.run_log) raises TypeError unless
\* the dict has exactly the function's parameters as keys
card_raises(log) == log.keys # CardKeys

dump_after_fail_first(d, t, frc) == IF frc \/ d # None THEN d ELSE t

\* on_task_fail: "if forced: return", else self.dump = (t, stdout, stderr)
dump_after_fail(d, t, frc) == IF frc THEN d ELSE t

\* run()'s finally block: the last set_run_log, then on_run_complete, which
\* returns at once when not auto.  exc is the exception that is propagating
\* ("none" when run() would return); an exception raised by on_run_complete
\* replaces it.
run_finally(rs, st, exc) ==
    LET log == final_log(log_db, run_log, rs, graph, st)
    IN /\ run_log' = log
       /\ cards' = IF auto /\ ~card_raises(log) THEN cards + 1 ELSE cards
       /\ raised' = IF auto /\ card_raises(log) THEN "TypeError" ELSE exc
       /\ UNCHANGED <<storeRows, deleted>>

Init ==
    /\ jobs \in JobSpecs
    /\ only_run = {}
    /\ graph = list_tasks(jobs)
    /\ auto = FALSE
    /\ log_db = FALSE
    /\ missing = {}
    /\ badExt = {}
    /\ run_log = EmptyLog
    /\ storeRows = 0
    /\ deleted = 0
    /\ cards = 0
    /\ dump = None
    /\ raised = "none"
    /\ NoDBLoadTask
    /\ NoMerge
    /\ forced \in BOOLEAN
    /\ max_tasks \in 1..MaxMaxTasks
    /\ \E b \in BOOLEAN : fpSame = [s \in Scripts |-> b]
    /\ status = [s \in Scripts |-> "unassigned"]
    /\ runPc = "loop"
    /\ run_status = "running"
    /\ taskPc = [s \in Scripts |-> "idle"]
    /\ queue = <<>>
    /\ semaphore = 0
    /\ pendingExc = "none"
    /\ proc = [s \in Scripts |-> "none"]
    /\ returncode = [s \in Scripts |-> None]
    /\ stdout = [s \in Scripts |-> NoBlock]
    /\ spawnCount = [s \in Scripts |-> 0]
    /\ requeues = 0
    /\ failedExit = [s \in Scripts |-> FALSE]
    /\ orphans = {}

\* run_task(t) is over: its local variables (proc, stdout) are gone
forget_proc(t) ==
    /\ proc' = [proc EXCEPT ![t] = "none"]
    /\ returncode' = [returncode EXCEPT ![t] = None]
    /\ stdout' = [stdout EXCEPT ![t] = NoBlock]
    /\ orphans' = IF proc[t] = "alive" THEN orphans \cup {t} ELSE orphans
    /\ UNCHANGED <<requeues, failedExit>>

first_exc(e) == IF pendingExc = "none" THEN e ELSE pendingExc

\* ---------------------------------------------------------------- run loop
\* One iteration of "while True" in run(): compute the ready list; start a
\* wave with it, or sweep the outstanding tasks and finish.
run_iteration ==
    /\ runPc = "loop"
    /\ LET r == ready_list(graph, status, 1, <<>>, forced, fpSame)
       IN IF r.ready # <<>>
          THEN /\ status' = r.status
               /\ queue' = r.ready
               /\ taskPc' = [s \in Scripts |->
                               IF s \in Range(r.ready) THEN "queued" ELSE "idle"]
               /\ semaphore' = max_tasks
               /\ runPc' = "wave"
               /\ UNCHANGED <<run_status, endVars>>
          ELSE /\ status' = skip_outstanding(graph, r.status)
               /\ runPc' = "done"
               /\ run_status' = "finished"
               /\ run_finally("finished", skip_outstanding(graph, r.status), "none")
               /\ UNCHANGED <<queue, taskPc, semaphore>>
    /\ UNCHANGED <<merging, inputs, dbload, dump, pendingExc, procVars, spawnCount>>

sem_free_always(v) == TRUE

sem_free_never(v) == FALSE

\* the semaphore admits one more coroutine
sem_free(v) == v > 0

\* prep_base_args: the extension is py or r; else it raises Exception
known_ext(bad, t) == t \notin bad

\* sem_task: "async with semaphore" is entered by the longest-waiting
\* coroutine; run_task(t) then runs up to its first await: on_task_ready
\* (prep_base_args, which raises for an unknown extension, and the
\* semaphore is released again) and create_subprocess_exec, which forks the
\* child.
sem_task(t) ==
    /\ runPc = "wave"
    /\ queue # <<>> /\ t = Head(queue)
    /\ sem_free(semaphore)
    /\ queue' = Tail(queue)
    /\ IF known_ext(badExt, t)
       THEN /\ semaphore' = semaphore - 1
            /\ taskPc' = [taskPc EXCEPT ![t] = "spawning"]
            /\ proc' = [proc EXCEPT ![t] = "alive"]
            /\ returncode' = [returncode EXCEPT ![t] = None]
            /\ stdout' = [stdout EXCEPT ![t] = NoBlock]
            /\ spawnCount' = [spawnCount EXCEPT ![t] = @ + 1]
            /\ UNCHANGED pendingExc
       ELSE /\ taskPc' = [taskPc EXCEPT ![t] = "raised"]
            /\ pendingExc' = first_exc("Exception")
            /\ UNCHANGED <<semaphore, proc, returncode, stdout, spawnCount>>
    /\ UNCHANGED <<requeues, failedExit, orphans>>
    /\ UNCHANGED <<merging, inputs, dbload, endVars, dump, status, runPc, run_status>>

\* run_task after create_subprocess_exec returned: stamp start, set running
run_task_started(t) ==
    /\ runPc = "wave"
    /\ taskPc[t] = "spawning"
    /\ status' = [status EXCEPT ![t] = "running"]
    /\ taskPc' = [taskPc EXCEPT ![t] = "communicating"]
    /\ UNCHANGED <<merging, inputs, dbload, endVars, dump, runPc, run_status, queue, semaphore, pendingExc,
                   procVars, spawnCount>>

\* The child process ends with some exit code and some output.
Outcomes ==
    {[rc |-> 0, out |-> o] : o \in Stdouts}
    \cup {[rc |-> 1, out |-> o] : o \in {NoBlock, [block |-> TRUE, keys |-> {"status"}, status |-> "success"]}}

ProcExit(t) ==
    /\ proc[t] = "alive"
    /\ \E o \in Outcomes :
        /\ o.out.status = "unassigned" => requeues < MaxRequeues
        /\ requeues' = IF o.out.status = "unassigned" THEN requeues + 1 ELSE requeues
        /\ proc' = [proc EXCEPT ![t] = "exited"]
        /\ returncode' = [returncode EXCEPT ![t] = o.rc]
        /\ stdout' = [stdout EXCEPT ![t] = o.out]
        /\ failedExit' = [failedExit EXCEPT ![t] =
                            @ \/ (o.rc # 0 /\ taskPc[t] # "terminating")]
    /\ UNCHANGED <<merging, inputs, dbload, endVars, dump, status, runPc, run_status, taskPc, queue, semaphore,
                   pendingExc, spawnCount, orphans>>

\* run_task after proc.communicate() returned: the assert on the exit code,
\* on_task_complete or on_task_fail, and the release of the semaphore.
run_task_finished(t) ==
    /\ runPc = "wave"
    /\ taskPc[t] = "communicating"
    /\ proc[t] = "exited"
    /\ semaphore' = semaphore + 1
    /\ IF ~exit_ok(returncode[t])
       THEN /\ status' = [status EXCEPT ![t] = on_task_fail(@)]
            /\ dump' = dump_after_fail(dump, t, forced)
            /\ IF task_fail_raises(forced)
               THEN /\ taskPc' = [taskPc EXCEPT ![t] = "raised"]
                    /\ pendingExc' = first_exc("AssertionError")
               ELSE /\ taskPc' = [taskPc EXCEPT ![t] = "returned"]
                    /\ UNCHANGED pendingExc
       ELSE LET r == read_result(stdout[t])
            IN IF r.ok
               THEN /\ status' = [status EXCEPT ![t] = on_task_complete(@, r)]
                    /\ taskPc' = [taskPc EXCEPT ![t] = "returned"]
                    /\ UNCHANGED <<pendingExc, dump>>
               ELSE /\ taskPc' = [taskPc EXCEPT ![t] = "raised"]
                    /\ pendingExc' = first_exc("TypeError")
                    /\ UNCHANGED <<status, dump>>
    /\ forget_proc(t)
    /\ UNCHANGED <<merging, inputs, dbload, endVars, runPc, run_status, queue, spawnCount>>

WaveTasks == {s \in Scripts : taskPc[s] # "idle"}

gather_done_any ==
    /\ runPc = "wave"
    /\ pendingExc = "none"
    /\ \E s \in WaveTasks : taskPc[s] = "returned"
    /\ runPc' = "loop"
    /\ UNCHANGED <<merging, inputs, dbload, endVars, dump, status, run_status, taskPc, queue, semaphore,
                   pendingExc, procVars, spawnCount>>

\* asyncio.gather returned: every coroutine of the wave returned
gather_done ==
    /\ runPc = "wave"
    /\ pendingExc = "none"
    /\ \A s \in WaveTasks : taskPc[s] = "returned"
    /\ runPc' = "loop"
    /\ UNCHANGED <<merging, inputs, dbload, endVars, dump, status, run_status, taskPc, queue, semaphore,
                   pendingExc, procVars, spawnCount>>

\* asyncio.gather raised the first exception: asyncio.run cancels every
\* coroutine that has not finished.
gather_raised ==
    /\ runPc = "wave"
    /\ pendingExc # "none"
    /\ runPc' = "cancelling"
    /\ UNCHANGED <<merging, inputs, dbload, endVars, dump, status, run_status, taskPc, queue, semaphore,
                   pendingExc, procVars, spawnCount>>

\* The operator's interrupt: inside asyncio.run it cancels the wave, between
\* waves it ends the run at once.
KeyboardInterrupt ==
    /\ \/ /\ runPc = "wave"
          /\ pendingExc = "none"
          /\ pendingExc' = "KeyboardInterrupt"
          /\ runPc' = "cancelling"
          /\ UNCHANGED <<run_status, endVars>>
       \/ /\ runPc = "loop"
          /\ runPc' = "done"
          /\ run_status' = "aborted"
          /\ run_finally("aborted", status, "none")
          /\ UNCHANGED pendingExc
    /\ UNCHANGED <<merging, inputs, dbload, dump, status, taskPc, queue, semaphore, procVars, spawnCount>>

must_terminate_never(rc) == FALSE

\* run_task's finally: "if proc.returncode is None"
must_terminate(rc) == rc = None

\* A cancelled coroutine that waits for the semaphore: run_task never starts.
cancel_queued(t) ==
    /\ runPc = "cancelling"
    /\ taskPc[t] = "queued"
    /\ taskPc' = [taskPc EXCEPT ![t] = "cancelled"]
    /\ queue' = SelectSeq(queue, LAMBDA s : s # t)
    /\ UNCHANGED <<merging, inputs, dbload, endVars, dump, status, runPc, run_status, semaphore, pendingExc,
                   procVars, spawnCount>>

\* Cancelled inside create_subprocess_exec: asyncio closes the transport,
\* which kills the child and waits for it; run_task's try was not entered.
cancel_spawning(t) ==
    /\ runPc = "cancelling"
    /\ taskPc[t] = "spawning"
    /\ taskPc' = [taskPc EXCEPT ![t] = "cancelled"]
    /\ semaphore' = semaphore + 1
    /\ proc' = [proc EXCEPT ![t] = "none"]
    /\ returncode' = [returncode EXCEPT ![t] = None]
    /\ stdout' = [stdout EXCEPT ![t] = NoBlock]
    /\ UNCHANGED <<merging, inputs, dbload, endVars, dump, status, runPc, run_status, queue, pendingExc, spawnCount,
                   requeues, failedExit, orphans>>

\* Cancelled inside proc.communicate(): the finally block terminates the
\* child when proc.returncode is None and then awaits proc.wait(); when the
\* child has already exited the status is left as it is.
cancel_communicating(t) ==
    /\ runPc = "cancelling"
    /\ taskPc[t] = "communicating"
    /\ IF must_terminate(returncode[t])
       THEN /\ taskPc' = [taskPc EXCEPT ![t] = "terminating"]
            /\ UNCHANGED <<semaphore, procVars>>
       ELSE /\ taskPc' = [taskPc EXCEPT ![t] = "cancelled"]
            /\ semaphore' = semaphore + 1
            /\ forget_proc(t)
    /\ UNCHANGED <<merging, inputs, dbload, endVars, dump, status, runPc, run_status, queue, pendingExc, spawnCount>>

\* proc.wait() returned after proc.terminate(): t["status"] = "terminated"
run_task_terminated(t) ==
    /\ runPc = "cancelling"
    /\ taskPc[t] = "terminating"
    /\ proc[t] = "exited"
    /\ status' = [status EXCEPT ![t] = "terminated"]
    /\ taskPc' = [taskPc EXCEPT ![t] = "cancelled"]
    /\ semaphore' = semaphore + 1
    /\ forget_proc(t)
    /\ UNCHANGED <<merging, inputs, dbload, endVars, dump, runPc, run_status, queue, pendingExc, spawnCount>>

except_status_no_interrupt(exc) ==
    CASE exc = "AssertionError" -> "halted"
      [] OTHER -> "crashed"

\* the except clauses of run(): KeyboardInterrupt, AssertionError, bare except
except_status(exc) ==
    CASE exc = "KeyboardInterrupt" -> "aborted"
      [] exc = "AssertionError" -> "halted"
      [] OTHER -> "crashed"

\* asyncio.run raised into run(): the except clauses set the run status,
\* the bare except re-raises, and the finally block runs.
run_except ==
    /\ runPc = "cancelling"
    /\ \A s \in WaveTasks : taskPc[s] \in {"returned", "raised", "cancelled"}
    /\ run_status' = except_status(pendingExc)
    /\ runPc' = "done"
    /\ run_finally(except_status(pendingExc), status,
                   IF except_status(pendingExc) = "crashed" THEN pendingExc ELSE "none")
    /\ UNCHANGED <<merging, inputs, dbload, dump, status, taskPc, queue, semaphore, pendingExc,
                   procVars, spawnCount>>

Next ==
    \/ run_iteration
    \/ \E t \in Scripts : sem_task(t)
    \/ \E t \in Scripts : run_task_started(t)
    \/ \E t \in Scripts : ProcExit(t)
    \/ \E t \in Scripts : run_task_finished(t)
    \/ gather_done
    \/ gather_raised
    \/ KeyboardInterrupt
    \/ \E t \in Scripts : cancel_queued(t)
    \/ \E t \in Scripts : cancel_spawning(t)
    \/ \E t \in Scripts : cancel_communicating(t)
    \/ \E t \in Scripts : run_task_terminated(t)
    \/ run_except

Spec == Init /\ [][Next]_vars

\* ---------------------------------------------------------------- progress
\* Every step of run() and of its coroutines is taken when it stays
\* possible, and every child process exits at some time (ProcExit); the
\* operator's interrupt may or may not come.
NextFair ==
    \/ run_iteration
    \/ \E t \in Scripts : sem_task(t)
    \/ \E t \in Scripts : run_task_started(t)
    \/ \E t \in Scripts : ProcExit(t)
    \/ \E t \in Scripts : run_task_finished(t)
    \/ gather_done
    \/ gather_raised
    \/ \E t \in Scripts : cancel_queued(t)
    \/ \E t \in Scripts : cancel_spawning(t)
    \/ \E t \in Scripts : cancel_communicating(t)
    \/ \E t \in Scripts : run_task_terminated(t)
    \/ run_except

InitLive == Init /\ jobs = FanJobs /\ fpSame = [s \in Scripts |-> TRUE]

SpecLive == InitLive /\ [][Next]_vars /\ WF_vars(NextFair)

TypeOK ==
    /\ runPc \in {"new", "listing", "raised", "loop", "wave", "cancelling", "done"}
    /\ auto \in BOOLEAN /\ log_db \in BOOLEAN
    /\ missing \subseteq Scripts /\ badExt \subseteq Scripts
    /\ run_log.keys \subseteq CardKeys
    /\ storeRows \in 0..1 /\ cards \in 0..1
    /\ dump \in Scripts \cup {None}
    /\ \A k \in DBTasks :
        /\ store_status[k] \in {"None", "success", "skipped", "error"}
        /\ log_hash[k] \in Hashes \cup {0}
        /\ local_file[k] \in Hashes \cup {0}
    /\ store_ret \in {"none", "True", "False", "raised"}
    /\ \A k \in DBTasks : load_status[k] \in {"None", "success", "skipped", "error"}
    /\ load_ret \in {"none", "True", "False", "raised"}
    /\ dumped.status \in {"none", "success", "skipped", "error"}
    /\ only_run \subseteq Scripts
    /\ run_status \in {"running", "finished", "aborted", "halted", "crashed"}
    /\ \A t \in Scripts :
        /\ taskPc[t] \in {"idle", "queued", "spawning", "communicating",
                          "terminating", "returned", "raised", "cancelled"}
        /\ proc[t] \in {"none", "alive", "exited"}
        /\ returncode[t] \in {None, 0, 1}
        /\ stdout[t] \in Stdouts

\* ------------------------------------------------- graph construction
\* run() up to "self.tasks = tasks = self.list_tasks(self.jobs, only_run)",
\* for every job specification of at most MaxRefs script references and
\* every only_run.
InitGraph ==
    /\ jobs \in job_specs(MaxRefs)
    /\ only_run \in SUBSET Scripts
    /\ graph = EmptyGraph
    /\ forced = FALSE
    /\ max_tasks = 1
    /\ fpSame = [s \in Scripts |-> TRUE]
    /\ status = [s \in Scripts |-> "unassigned"]
    /\ runPc = "listing"
    /\ run_status = "running"
    /\ taskPc = [s \in Scripts |-> "idle"]
    /\ queue = <<>>
    /\ semaphore = 0
    /\ pendingExc = "none"
    /\ proc = [s \in Scripts |-> "none"]
    /\ returncode = [s \in Scripts |-> None]
    /\ stdout = [s \in Scripts |-> NoBlock]
    /\ spawnCount = [s \in Scripts |-> 0]
    /\ requeues = 0
    /\ failedExit = [s \in Scripts |-> FALSE]
    /\ orphans = {}
    /\ auto = FALSE
    /\ log_db = FALSE
    /\ missing = {}
    /\ badExt = {}
    /\ run_log = EmptyLog
    /\ storeRows = 0
    /\ deleted = 0
    /\ cards = 0
    /\ dump = None
    /\ raised = "none"
    /\ NoDBLoadTask
    /\ NoMerge

script_found_always(miss, sc) == TRUE

\* make_task: os.path.isfile(scripts_path / script)
script_found(miss, sc) == sc \notin miss

\* list_tasks(jobs, only_run) returns: the graph, filtered when only_run is
\* given; run() then writes the start of the run to the run log
list_tasks_returns ==
    /\ runPc = "listing"
    /\ LET g == list_tasks(jobs)
           tasks == IF only_run # {} THEN filter_tasks(g, only_run) ELSE g
       IN /\ \A sc \in Range(g.order) : script_found(missing, sc)
          /\ only_run # {} => ~filter_tasks_raises(g, only_run)
          /\ graph' = tasks
          /\ run_log' = prologue_log(log_db, run_log, tasks,
                                        run_args(auto, forced, only_run, max_tasks))
    /\ runPc' = "loop"
    /\ UNCHANGED <<merging, dbload, jobs, only_run, forced, max_tasks, fpSame, status, run_status,
                   taskPc, queue, semaphore, pendingExc, procVars, spawnCount,
                   auto, log_db, missing, badExt, storeRows, deleted, cards, dump,
                   raised>>

\* list_tasks raises out of make_task: a referenced script is not a file.
\* The call is before run()'s try block: run() raises, nothing else runs.
list_tasks_missing ==
    /\ runPc = "listing"
    /\ \E sc \in Range(list_tasks(jobs).order) : ~script_found(missing, sc)
    /\ pendingExc' = "Exception"
    /\ raised' = "Exception"
    /\ runPc' = "raised"
    /\ UNCHANGED <<merging, inputs, dbload, dump, status, run_status, taskPc, queue, semaphore,
                   procVars, spawnCount, run_log, storeRows, deleted, cards>>

\* list_tasks(jobs, only_run) raises RecursionError out of filter_tasks; the
\* call is before run()'s try block, so run() raises it as well
list_tasks_raises ==
    /\ runPc = "listing"
    /\ only_run # {}
    /\ filter_tasks_raises(list_tasks(jobs), only_run)
    /\ \A sc \in Range(list_tasks(jobs).order) : script_found(missing, sc)
    /\ graph' = list_tasks(jobs)
    /\ pendingExc' = "RecursionError"
    /\ raised' = "RecursionError"
    /\ runPc' = "raised"
    /\ UNCHANGED <<merging, dbload, jobs, only_run, forced, max_tasks, fpSame, status, run_status,
                   taskPc, queue, semaphore, procVars, spawnCount,
                   auto, log_db, missing, badExt, run_log, storeRows, deleted, cards,
                   dump>>

NextGraph ==
    \/ list_tasks_returns
    \/ list_tasks_raises

SpecGraph == InitGraph /\ [][NextGraph]_vars

\* ------------------------------------------------------ the whole lifetime
\* Taskmaster(jobs, run_name, scripts_path, log_db) followed by
\* run(auto, forced, None, max_tasks): the constructor's create_run_log,
\* the call of list_tasks, the loop and the finally block.  The run log
\* table holds zero or one row with this run_name beforehand; the first or
\* the last script may be missing or have an unknown extension.
RunJobSpecs == {FanJobs}

InitRun ==
    /\ jobs \in RunJobSpecs
    /\ only_run = {}
    /\ graph = EmptyGraph
    /\ forced \in BOOLEAN
    /\ max_tasks = MaxMaxTasks
    /\ fpSame = [s \in Scripts |-> TRUE]
    /\ auto \in BOOLEAN
    /\ log_db \in BOOLEAN
    /\ storeRows \in (IF log_db THEN {0, 1} ELSE {0})
    /\ \E sc \in {1, NumScripts}, fault \in {"none", "missing", "extension"} :
          /\ missing = IF fault = "missing" THEN {sc} ELSE {}
          /\ badExt = IF fault = "extension" THEN {sc} ELSE {}
    /\ status = [s \in Scripts |-> "unassigned"]
    /\ runPc = "new"
    /\ run_status = "running"
    /\ taskPc = [s \in Scripts |-> "idle"]
    /\ queue = <<>>
    /\ semaphore = 0
    /\ pendingExc = "none"
    /\ proc = [s \in Scripts |-> "none"]
    /\ returncode = [s \in Scripts |-> None]
    /\ stdout = [s \in Scripts |-> NoBlock]
    /\ spawnCount = [s \in Scripts |-> 0]
    /\ requeues = 0
    /\ failedExit = [s \in Scripts |-> FALSE]
    /\ orphans = {}
    /\ run_log = EmptyLog
    /\ deleted = 0
    /\ cards = 0
    /\ dump = None
    /\ raised = "none"
    /\ NoDBLoadTask
    /\ NoMerge

\* __init__ calls create_run_log: without log_db nothing; else delete the
\* rows with this run_name, then insert the new row
create_run_log ==
    /\ runPc = "new"
    /\ runPc' = "listing"
    /\ IF log_db
       THEN /\ deleted' = deleted + storeRows
            /\ storeRows' = 1
       ELSE UNCHANGED <<deleted, storeRows>>
    /\ run_log' = start_log(log_db, run_log)
    /\ UNCHANGED <<merging, inputs, dbload, dump, status, run_status, taskPc, queue, semaphore,
                   pendingExc, procVars, spawnCount, cards, raised>>

NextRun ==
    \/ create_run_log
    \/ list_tasks_returns
    \/ list_tasks_missing
    \/ Next

SpecRun == InitRun /\ [][NextRun]_vars

\* -------------------------------------------------------------- DBLoadTask
\* no Taskmaster exists
NoTaskmaster ==
    /\ jobs = <<>>
    /\ only_run = {}
    /\ graph = EmptyGraph
    /\ forced = FALSE
    /\ max_tasks = 1
    /\ fpSame = [s \in Scripts |-> TRUE]
    /\ status = [s \in Scripts |-> "unassigned"]
    /\ runPc = "new"
    /\ run_status = "running"
    /\ taskPc = [s \in Scripts |-> "idle"]
    /\ queue = <<>>
    /\ semaphore = 0
    /\ pendingExc = "none"
    /\ proc = [s \in Scripts |-> "none"]
    /\ returncode = [s \in Scripts |-> None]
    /\ stdout = [s \in Scripts |-> NoBlock]
    /\ spawnCount = [s \in Scripts |-> 0]
    /\ requeues = 0
    /\ failedExit = [s \in Scripts |-> FALSE]
    /\ orphans = {}
    /\ auto = FALSE
    /\ log_db = FALSE
    /\ missing = {}
    /\ badExt = {}
    /\ run_log = EmptyLog
    /\ storeRows = 0
    /\ deleted = 0
    /\ cards = 0
    /\ dump = None
    /\ raised = "none"

\* the files the tasks are to store: all with one hash, or each differing
\* from the one before
LocalFiles == {[k \in DBTasks |-> 1], [k \in DBTasks |-> 2 - (k % 2)]}

\* DBLoadTasks 1..NumDBTasks of one table_name, freshly constructed
\* (new_log: every status NULL), each with a local file to store.
InitStore ==
    /\ NoTaskmaster
    /\ NoMerge
    /\ store_status = [k \in DBTasks |-> "None"]
    /\ log_hash = [k \in DBTasks |-> 0]
    /\ stored_at = [k \in DBTasks |-> 0]
    /\ local_file \in LocalFiles
    /\ uploads = 0
    /\ log_writes = 0
    /\ store_call = NoCall
    /\ store_ret = "none"
    /\ store_calls = 0
    /\ load_status = [k \in DBTasks |-> "None"]
    /\ loads = 0
    /\ load_call = NoCall
    /\ load_ret = "none"
    /\ load_calls = 0
    /\ dumped = NoPayload

\* get_last_stored: the task other than k with store_status success that
\* was stored last (same table_name and source_url), 0 when there is none
get_last_stored(ss, at, k) ==
    LET others == {j \in DBTasks \ {k} : ss[j] = "success"}
    IN IF others = {} THEN 0
       ELSE CHOOSE j \in others : \A i \in others : at[i] <= at[j]

already_stored_never(ss, f) == FALSE

\* store(): store_status is success and the call is not forced: return False
already_stored(ss, f) == ss = "success" /\ ~f

\* what hudkeep.store does: it stores the file (truthy result), declines
\* (falsy result), or an exception is raised inside the try block
StoreOutcomes == {"stored", "skipped", "raised"}

\* DBLoadTask.store(local_fn, container_url, source_url = the common source,
\* forced = f) of task k
store(k, f) ==
    /\ store_calls + load_calls < MaxCalls
    /\ store_calls' = store_calls + 1
    /\ store_call' = [task |-> k, forced |-> f]
    /\ IF already_stored(store_status[k], f)
       THEN /\ store_ret' = "False"
            /\ UNCHANGED <<store_status, log_hash, stored_at, local_file, uploads,
                           log_writes>>
       ELSE IF local_file[k] = 0
       THEN \* local_props(local_fn) raises, outside the try block
            /\ store_ret' = "raised"
            /\ UNCHANGED <<store_status, log_hash, stored_at, local_file, uploads,
                           log_writes>>
       ELSE LET last == get_last_stored(store_status, stored_at, k)
            IN IF last # 0 /\ local_file[k] = log_hash[last] /\ ~f
               THEN /\ store_status' = [store_status EXCEPT ![k] = "skipped"]
                    /\ log_writes' = log_writes + 1
                    /\ store_ret' = "False"
                    /\ UNCHANGED <<log_hash, stored_at, local_file, uploads>>
               ELSE \E o \in StoreOutcomes :
                    /\ log_writes' = log_writes + 1
                    /\ CASE o = "stored" ->
                              /\ store_status' = [store_status EXCEPT ![k] = "success"]
                              /\ log_hash' = [log_hash EXCEPT ![k] = local_file[k]]
                              /\ stored_at' = [stored_at EXCEPT ![k] = store_calls + 1]
                              /\ uploads' = uploads + 1
                              /\ store_ret' = "True"
                              /\ UNCHANGED local_file
                         [] o = "skipped" ->
                              /\ store_status' = [store_status EXCEPT ![k] = "skipped"]
                              /\ local_file' = [local_file EXCEPT ![k] = 0]
                              /\ store_ret' = "False"
                              /\ UNCHANGED <<log_hash, stored_at, uploads>>
                         [] OTHER ->
                              /\ store_status' = [store_status EXCEPT ![k] = "error"]
                              /\ store_ret' = "False"
                              /\ UNCHANGED <<log_hash, stored_at, local_file, uploads>>
    /\ load_call' = NoCall /\ load_ret' = "none" /\ dumped' = NoPayload
    /\ UNCHANGED <<load_status, loads, load_calls>>
    /\ UNCHANGED <<merging, inputs, endVars, dump, status, runPc, run_status, taskPc, queue,
                   semaphore, pendingExc, procVars, spawnCount>>

stored_ok_always(ss) == TRUE

\* load(): store_status is success, else load() skips or raises
stored_ok(ss) == ss = "success"

\* load(): load_status is success and the call is not forced: return False
already_loaded(ls, f) == ls = "success" /\ ~f

\* load(): the last stored other task of the table and source has not been
\* loaded and the call is not forced: raise
old_unloaded(last, ls, f) == last # 0 /\ ls[last] # "success" /\ ~f

\* what retrieve and the loader do: the blob cannot be retrieved (raises
\* before the try block), the loader returns a row count, or it raises
LoadOutcomes == {"unretrieved", "loaded", "raised"}

\* DBLoadTask.load(container_url, loader, forced = f) of task k
load(k, f) ==
    /\ store_calls + load_calls < MaxCalls
    /\ load_calls' = load_calls + 1
    /\ load_call' = [task |-> k, forced |-> f]
    /\ IF ~stored_ok(store_status[k])
       THEN IF store_status[k] = "skipped"
            THEN /\ load_status' = [load_status EXCEPT ![k] = "skipped"]
                 /\ log_writes' = log_writes + 1
                 /\ load_ret' = "False"
                 /\ UNCHANGED loads
            ELSE /\ load_ret' = "raised"
                 /\ UNCHANGED <<load_status, log_writes, loads>>
       ELSE IF already_loaded(load_status[k], f)
       THEN /\ load_ret' = "False"
            /\ UNCHANGED <<load_status, log_writes, loads>>
       ELSE IF old_unloaded(get_last_stored(store_status, stored_at, k), load_status, f)
       THEN /\ load_ret' = "raised"
            /\ UNCHANGED <<load_status, log_writes, loads>>
       ELSE \E o \in LoadOutcomes :
            CASE o = "unretrieved" ->
                   /\ load_ret' = "raised"
                   /\ UNCHANGED <<load_status, log_writes, loads>>
              [] o = "loaded" ->
                   /\ loads' = loads + 1
                   /\ load_status' = [load_status EXCEPT ![k] = "success"]
                   /\ log_writes' = log_writes + 1
                   /\ load_ret' = "True"
              [] OTHER ->
                   /\ loads' = loads + 1
                   /\ load_status' = [load_status EXCEPT ![k] = "error"]
                   /\ log_writes' = log_writes + 1
                   /\ load_ret' = "False"
    /\ store_call' = NoCall /\ store_ret' = "none" /\ dumped' = NoPayload
    /\ UNCHANGED <<store_status, log_hash, stored_at, local_file, uploads, store_calls>>
    /\ UNCHANGED <<merging, inputs, endVars, dump, status, runPc, run_status, taskPc, queue,
                   semaphore, pendingExc, procVars, spawnCount>>

\* dump_result: the status of the payload, from the log's
\* (load_status, load_status) pair
dump_status(ss, ls) ==
    IF <<ls, ls>> = <<"success", "success">> THEN "success"
    ELSE IF <<ls, ls>> = <<"skipped", "skipped">> THEN "skipped"
    ELSE "error"

\* DBLoadTask.dump_result() of task k
dump_result(k) ==
    /\ dumped' = [task |-> k, status |-> dump_status(store_status[k], load_status[k])]
    /\ store_call' = NoCall /\ store_ret' = "none"
    /\ load_call' = NoCall /\ load_ret' = "none"
    /\ UNCHANGED <<store_status, log_hash, stored_at, local_file, uploads, log_writes,
                   store_calls, load_status, loads, load_calls>>
    /\ UNCHANGED <<merging, inputs, endVars, dump, status, runPc, run_status, taskPc, queue,
                   semaphore, pendingExc, procVars, spawnCount>>

\* ---------------------------------------------------------- result payload
\* the keys of a task dict (make_task), and rows for a key that only the
\* payload brings
TaskKeys == {"script", "status", "parents", "children", "rows"}

\* a task's parents or children: no task or one task
Links == {<<>>} \cup {<<s>> : s \in Scripts}

\* the task dicts whose process has just exited with code 0
RunningTasks ==
    {[script |-> sc, status |-> "running", parents |-> ps, children |-> cs,
      rows |-> None] : sc \in Scripts, ps \in Links, cs \in Links}

\* json.loads(res): a JSON object with any of the keys; a list comes back
\* as a list of strings, here the empty one
Payloads ==
    {[keys |-> K,
      script |-> IF "script" \in K THEN sc ELSE 0,
      status |-> IF "status" \in K THEN st ELSE "-",
      parents |-> <<>>,
      children |-> <<>>,
      rows |-> IF "rows" \in K THEN 1 ELSE None] :
        K \in SUBSET TaskKeys, sc \in Scripts, st \in PayloadStatuses}

\* t.update(r): every key of the payload replaces or adds the task's entry
update(t, r) ==
    [script |-> IF "script" \in r.keys THEN r.script ELSE t.script,
     status |-> on_task_complete(t.status, r),
     parents |-> IF "parents" \in r.keys THEN r.parents ELSE t.parents,
     children |-> IF "children" \in r.keys THEN r.children ELSE t.children,
     rows |-> IF "rows" \in r.keys THEN r.rows ELSE t.rows]

\* a task whose process exited with code 0 and a well-formed result block
InitMerge ==
    /\ NoTaskmaster
    /\ NoDBLoadTask
    /\ task \in RunningTasks
    /\ result \in Payloads
    /\ merged = FALSE

\* on_task_complete(t, stdout, stderr) with r = read_result(stdout)
task_complete ==
    /\ ~merged
    /\ task' = update(task, result)
    /\ merged' = TRUE
    /\ UNCHANGED result
    /\ UNCHANGED <<inputs, dbload, endVars, dump, status, runPc, run_status, taskPc,
                   queue, semaphore, pendingExc, procVars, spawnCount>>

NextMerge == task_complete

SpecMerge == InitMerge /\ [][NextMerge]_vars

NextStore ==
    \/ \E k \in DBTasks, f \in BOOLEAN : store(k, f)
    \/ \E k \in DBTasks, f \in BOOLEAN : load(k, f)
    \/ \E k \in DBTasks : dump_result(k)

SpecStore == InitStore /\ [][NextStore]_vars

\* ------------------------------------------------------- derived notions
Tasks == Range(graph.order)
Descendants(t) == Range(get_descendents(graph.children, t))
Ancestors(t) == Range(get_ancestors(graph.parents, t))
Alive == {t \in Scripts : proc[t] = "alive"}
RunEnded == runPc = "done"
Finished == runPc = "done" /\ run_status = "finished"
ParentsSucceeded(st, t) == \A p \in Range(graph.parents[t]) : st[p] = "success"

\* the step in which run_task(t) handles the end of proc.communicate()
Finishing(t) == taskPc[t] = "communicating" /\ taskPc'[t] \in {"returned", "raised"}

\* ------------------------------------------------------------------ claims

\* C1: with max_tasks = N >= 1, the number of child processes that were
\* spawned and have not exited is at most N in every state.
C1_ConcurrencyBound == Cardinality(Alive) <= max_tasks

\* C1 witness: the cap is reached while further tasks of the wave wait.
C1_Witness == Cardinality(Alive) = max_tasks /\ queue # <<>>

\* C2: a child process is spawned, and its task becomes running, only in a
\* step at whose start and end every parent of the task has status success.
C2_StartsAfterParents ==
    [][\A t \in Scripts :
        ((proc[t] # "alive" /\ proc'[t] = "alive")
          \/ (status[t] # "running" /\ status'[t] = "running"))
        => ParentsSucceeded(status, t) /\ ParentsSucceeded(status', t)]_vars

\* C2 witness: a task with two parents is running.
C2_Witness ==
    \E t \in Scripts : Len(graph.parents[t]) >= 2 /\ status[t] = "running"

SpecTerminal == {"success", "failed", "unchanged", "skipped", "terminated"}

\* C3 as stated: at run end, whatever the run status, every task's status
\* is one of success, failed, unchanged, skipped, terminated.
C3_Original == RunEnded => \A t \in Tasks : status[t] \in SpecTerminal

\* C3 amended: at the end of a run that ends finished no task is unassigned:
\* each task is skipped, failed, or has what its result payload left
\* (running when the payload had no status field).
C3_FinishedNoneUnassigned ==
    Finished => \A t \in Tasks :
        /\ status[t] \in {"skipped", "failed", "running"} \cup (PayloadStatuses \ {"unassigned"})
        /\ spawnCount[t] = 0 => status[t] = "skipped"

\* C3 witness: a finished run in which a task was swept to skipped.
C3_Witness == Finished /\ \E t \in Tasks : status[t] = "skipped" /\ spawnCount[t] = 0

C6_Original ==
    [][\A t \in Scripts :
        (Finishing(t) /\ returncode[t] = 0 /\ stdout[t].block)
        => status'[t] = "success"]_vars

\* C6 amended: on exit code 0 with a well-formed result block the task's
\* status becomes the payload's status field and stays running when the
\* payload has none; it is success exactly when the payload says success.
C6_StatusFromPayload ==
    [][\A t \in Scripts :
        (Finishing(t) /\ returncode[t] = 0 /\ stdout[t].block)
        => /\ status'[t] = "success"
                <=> ("status" \in stdout[t].keys /\ stdout[t].status = "success")
           /\ "status" \in stdout[t].keys => status'[t] = stdout[t].status
           /\ "status" \notin stdout[t].keys => status'[t] = "running"]_vars

\* C6 witness: a coroutine returned and left its task with status error.
C6_Witness == \E t \in Scripts : taskPc[t] = "returned" /\ status[t] = "error"

\* C7: exit code 0 without a well-formed result block makes the task
\* failed, and no exception leaves run_task for it.
C7_MalformedIsFailure ==
    [][\A t \in Scripts :
        (Finishing(t) /\ returncode[t] = 0 /\ ~stdout[t].block)
        => status'[t] = "failed" /\ pendingExc' = pendingExc]_vars

\* C8: in an unforced run a task whose fingerprint is unchanged, and each
\* of its descendants, has no process spawned and ends unchanged.
C8_UnchangedShortCircuits ==
    ~forced => \A t \in Tasks : fpSame[t]
        => \A d \in {t} \cup Descendants(t) :
              /\ spawnCount[d] = 0
              /\ RunEnded => status[d] = "unchanged"

\* C9: a task with status success has every transitive ancestor in status
\* success or unchanged.
C9_SuccessHasGoodAncestors ==
    \A t \in Tasks : status[t] = "success"
        => \A a \in Ancestors(t) : status[a] \in {"success", "unchanged"}

\* C9 witness: a task with a grandparent, or with two parents, is success.
C9_Witness ==
    \E t \in Tasks : status[t] = "success" /\ Cardinality(Ancestors(t)) >= 2

SpecTransitions ==
    {<<"unassigned", "running">>, <<"running", "success">>,
     <<"running", "failed">>, <<"running", "terminated">>,
     <<"unassigned", "unchanged">>, <<"unassigned", "skipped">>}

\* C10 as stated: every status change is one of the six listed transitions.
C10_Original ==
    [][\A t \in Scripts :
        status'[t] # status[t] => <<status[t], status'[t]>> \in SpecTransitions]_vars

\* C10 amended: every status change is unassigned->running,
\* running->failed, running->terminated, unassigned->unchanged,
\* unassigned->skipped, or running->s with s the status field of the task's
\* result payload (which may be unassigned, so that the task runs again); a
\* status other than unassigned and running is never left.
C10_Transitions ==
    [][\A t \in Scripts :
        status'[t] # status[t]
        => \/ <<status[t], status'[t]>> \in
                 {<<"unassigned", "running">>, <<"running", "failed">>,
                  <<"running", "terminated">>, <<"unassigned", "unchanged">>,
                  <<"unassigned", "skipped">>}
           \/ /\ status[t] = "running"
              /\ Finishing(t) /\ returncode[t] = 0 /\ stdout[t].block
              /\ "status" \in stdout[t].keys
              /\ status'[t] = stdout[t].status]_vars

\* C10 witness: a task runs for the second time, another task has failed.
C10_Witness ==
    \E t, u \in Scripts :
        spawnCount[t] = 2 /\ status[t] = "running" /\ status[u] = "failed"


\* C11: a task gets status success only in the step in which run_task
\* handles exit code 0 with a well-formed result block, and a task one of
\* whose children exited with a non-zero code never has status success.
C11_SuccessNeedsCleanExit ==
    /\ [](\A t \in Scripts : status[t] = "success" => ~failedExit[t])
    /\ [][\A t \in Scripts :
            (status'[t] = "success" /\ status[t] # "success")
            => Finishing(t) /\ returncode[t] = 0 /\ stdout[t].block]_vars

\* C11 witness: a task is success after its second child process.
C11_Witness == \E t \in Scripts : status[t] = "success" /\ spawnCount[t] = 2

\* C12: a running task whose child has exited with a non-zero code is
\* failed when its coroutine ends, forced or not, and failed is never left.
C12_NonZeroEndsFailed ==
    [][\A t \in Scripts :
        /\ (taskPc[t] = "communicating" /\ taskPc'[t] # "communicating"
              /\ proc[t] = "exited" /\ returncode[t] # 0)
           => status'[t] = "failed"
        /\ status[t] = "failed" => status'[t] = "failed"]_vars

\* C13: no descendant of a failed task ever has a child process spawned or
\* is running or success.
C13_FailureBlocksDescendants ==
    \A t \in Tasks : status[t] = "failed"
        => \A d \in Descendants(t) :
              /\ spawnCount[d] = 0
              /\ proc[d] = "none"
              /\ status[d] \notin {"running", "success"}

\* C13 witness: forced run, a failed task has descendants while a task
\* outside its subtree has a live child.
C13_Witness ==
    /\ forced
    /\ \E t, u \in Tasks :
        /\ status[t] = "failed" /\ Descendants(t) # {}
        /\ u \notin Descendants(t) /\ proc[u] = "alive"

Interrupted == pendingExc = "KeyboardInterrupt"

C15_NoSpawnNoOrphans ==
    /\ [][Interrupted => spawnCount' = spawnCount]_vars
    /\ [](orphans = {})
    /\ []((RunEnded /\ run_status = "aborted") => Alive = {})

\* C15 witness: an aborted run in which a child was forked but its task
\* never became running, and another child was terminated.
C15_Witness ==
    /\ RunEnded /\ run_status = "aborted"
    /\ \E t, u \in Tasks :
        /\ spawnCount[t] = 1 /\ status[t] = "unassigned"
        /\ status[u] = "terminated"

\* C16: in a forced run the step that handles a non-zero exit returns
\* normally (nothing is raised, the wave goes on), the run is never halted,
\* and a run that ends without interrupt or crash ends finished with every
\* task whose parents all succeeded started.
C16_ForcedNeverHalts ==
    /\ [][\A t \in Scripts :
            (forced /\ Finishing(t) /\ returncode[t] # 0)
            => /\ taskPc'[t] = "returned"
               /\ pendingExc' = pendingExc
               /\ runPc' = "wave"]_vars
    /\ [](forced => run_status # "halted")
    /\ []((forced /\ RunEnded /\ run_status \notin {"aborted", "crashed"})
            => /\ run_status = "finished"
               /\ \A t \in Tasks : ParentsSucceeded(status, t) => spawnCount[t] > 0)

\* C16 witness: a forced run finished with a failed task and a task that
\* succeeded in a later wave.
C16_Witness ==
    /\ forced /\ Finished
    /\ \E t, u \in Tasks :
        /\ status[t] = "failed"
        /\ status[u] = "success" /\ graph.parents[u] # <<>>

\* C20: the ready list is computed only when no coroutine of a wave is
\* pending: a task outside the current wave has no child process, and a wave
\* is formed only when every coroutine of the previous one has returned.
C20_WavesDoNotOverlap ==
    /\ [](\A t \in Scripts : taskPc[t] = "idle" => proc[t] = "none")
    /\ [](runPc = "loop" =>
            \A t \in Scripts : taskPc[t] \in {"idle", "returned"} /\ proc[t] = "none")
    /\ [][\A t \in Scripts :
            (taskPc[t] # "queued" /\ taskPc'[t] = "queued")
            => \A u \in Scripts : taskPc[u] \in {"idle", "returned"} /\ proc[u] = "none"]_vars

\* C20 witness: task 2's only parent has succeeded while task 3 of the same
\* wave still runs; task 2 waits for the wave to end.
C20_Witness ==
    /\ graph = list_tasks(IndepJobs)
    /\ status[1] = "success" /\ taskPc[1] = "returned"
    /\ proc[3] = "alive" /\ status[2] = "unassigned"


\* what the job specification says, read off jobs directly
ExpectedScripts ==
    UNION {Range(jobs[j][i]) : <<j, i>> \in {p \in (DOMAIN jobs) \X (1..MaxRefs) : p[2] \in DOMAIN jobs[p[1]]}}

StepRefs(sc) ==
    {p \in (DOMAIN jobs) \X (1..MaxRefs) :
        p[2] \in DOMAIN jobs[p[1]] /\ sc \in Range(jobs[p[1]][p[2]])}

ExpectedParents(sc) ==
    UNION {Range(jobs[p[1]][p[2] - 1]) : p \in {q \in StepRefs(sc) : q[2] > 1}}

ExpectedChildren(sc) ==
    UNION {Range(jobs[p[1]][p[2] + 1]) :
             p \in {q \in StepRefs(sc) : q[2] < Len(jobs[q[1]])}}

NoDuplicates(seq) == Len(seq) = Cardinality(Range(seq))

Listed == runPc = "loop"

\* C17: list_tasks (without only_run) yields one task per distinct script of
\* the job specification, and each task's parent and child lists hold,
\* without duplicates, exactly the scripts of the steps before and after
\* each of its references.
C17_OneTaskPerScript ==
    (Listed /\ only_run = {}) =>
        /\ Tasks = ExpectedScripts
        /\ NoDuplicates(graph.order)
        /\ \A sc \in Tasks :
            /\ Range(graph.parents[sc]) = ExpectedParents(sc)
            /\ NoDuplicates(graph.parents[sc])
            /\ Range(graph.children[sc]) = ExpectedChildren(sc)
            /\ NoDuplicates(graph.children[sc])

\* C17 witness: a script is the first step of two jobs and its task has the
\* children of both.
C17_Witness ==
    /\ Listed /\ only_run = {}
    /\ Len(jobs) = 2
    /\ \E sc \in Range(jobs[1][1]) \cap Range(jobs[2][1]) :
        /\ Len(graph.children[sc]) = 2
        /\ Len(jobs[1]) = 2 /\ Len(jobs[2]) = 2

RECURSIVE ParentClosure(_, _)
ParentClosure(S, n) ==
    IF n = 0 THEN S
    ELSE ParentClosure(S \cup UNION {Range(graph.parents[sc]) : sc \in S}, n - 1)

\* the transitive ancestors of t in the graph
AncestorSet(t) == ParentClosure(Range(graph.parents[t]), NumScripts)

\* C18: in the graph list_tasks returns, no task is its own parent or its
\* own transitive ancestor.
C18_Acyclic ==
    (Listed /\ only_run = {}) => \A t \in Tasks : t \notin AncestorSet(t)

RECURSIVE ExpectedClosure(_, _)
ExpectedClosure(S, n) ==
    IF n = 0 THEN S
    ELSE ExpectedClosure(S \cup UNION {ExpectedParents(sc) : sc \in S}, n - 1)

\* C19: list_tasks with only_run returns, each once, exactly the tasks named
\* in only_run and their transitive ancestors, and every returned task's
\* children list holds exactly its children among the returned tasks.
C19_FilterReturnsClosure ==
    (runPc # "listing" /\ only_run # {}) =>
        /\ Listed
        /\ Tasks = ExpectedClosure(only_run \cap ExpectedScripts, NumScripts)
        /\ NoDuplicates(graph.order)
        /\ \A t \in Tasks :
              Range(graph.children[t]) = ExpectedChildren(t) \cap Tasks


Crashing == pendingExc \notin {"none", "KeyboardInterrupt", "AssertionError"}

FinalKeys == {"status", "tasks_succeeded", "tasks_failed", "tasks_skipped", "finished_at"}

\* C21: when a fault other than an interrupt or a task's exit-code assertion
\* ends the run loop, the run status is crashed, the run log (when a log
\* database is configured) holds status crashed, the final counts and the
\* finish time, and the fault itself leaves run().
C21_CrashLoggedAndReraised ==
    (RunEnded /\ Crashing) =>
        /\ run_status = "crashed"
        /\ log_db => (FinalKeys \subseteq run_log.keys /\ run_log.status = "crashed")
        /\ raised = pendingExc

CountOf(v) == Cardinality({t \in Tasks : status[t] = v})

\* C22: at the end of a run the run log's three counts are the numbers of
\* tasks that are success, failed and skipped, every task whose child exited
\* with a non-zero code is failed (and so counted in tasks_failed), and the
\* counts sum to at most tasks_count.
C22_CountsMatch ==
    (RunEnded /\ log_db) =>
        /\ run_log.tasks_succeeded = CountOf("success")
        /\ run_log.tasks_failed = CountOf("failed")
        /\ run_log.tasks_skipped = CountOf("skipped")
        /\ \A t \in Tasks : failedExit[t] => status[t] = "failed"
        /\ run_log.tasks_succeeded + run_log.tasks_failed + run_log.tasks_skipped
             <= run_log.tasks_count

\* C23: a card is sent only in auto mode and only when the run has ended and
\* the run log has its final update; when a run has ended, exactly one card
\* was sent in auto mode, with or without a log database, and none in
\* interactive mode.
C23_OneCardPerAutoRun ==
    /\ cards > 0 => (auto /\ RunEnded)
    /\ RunEnded => cards = (IF auto THEN 1 ELSE 0)

Retained == IF dump = None THEN {} ELSE {dump}

\* C24 as stated: the failure details of every failed task are retained,
\* forced or not.
C24_Original == \A t \in Tasks : status[t] = "failed" => t \in Retained

\* C24 amended: in an unforced run the step that marks a task failed puts
\* that task's details into self.dump, replacing those of an earlier
\* failure; in a forced run nothing is retained; self.dump only ever holds a
\* failed task and changes in no other step.
C24_LastUnforcedFailureKept ==
    /\ [][\A t \in Scripts :
            (Finishing(t) /\ returncode[t] # 0)
            => dump' = (IF forced THEN dump ELSE t)]_vars
    /\ [][dump' # dump => \E t \in Scripts : Finishing(t) /\ returncode[t] # 0]_vars
    /\ [](forced => dump = None)
    /\ [](dump # None => status[dump] = "failed")

\* C24 witness: two tasks of an unforced run are failed and the details of
\* one of them are kept.
C24_Witness ==
    /\ ~forced
    /\ \E t, u \in Tasks :
        t # u /\ status[t] = "failed" /\ status[u] = "failed" /\ dump = u

MissingReferenced == missing \cap ExpectedScripts # {}

\* C25: when a script referenced by a job is not a file, run() never gets
\* past list_tasks: no child is spawned, every task stays unassigned, and
\* run() is left by the Exception of make_task.
C25_MissingScriptIsFatal ==
    MissingReferenced =>
        /\ runPc \in {"new", "listing", "raised"}
        /\ \A t \in Scripts : spawnCount[t] = 0 /\ status[t] = "unassigned" /\ proc[t] = "none"
        /\ runPc = "raised" => raised = "Exception"

\* C25 witness: a Taskmaster with a log database has raised out of run()
\* because of a missing script.
C25_Witness ==
    /\ MissingReferenced /\ runPc = "raised" /\ raised = "Exception"
    /\ log_db /\ storeRows = 1

\* C26: when the error for an unknown extension is raised, no child process
\* of any task of the run has been spawned.
C26_UnknownExtensionBeforeAnySpawn ==
    (badExt # {} /\ pendingExc = "Exception") => \A t \in Scripts : spawnCount[t] = 0

WaveInFlight == \E u \in Scripts : taskPc[u] \notin {"idle", "returned"} \/ proc[u] # "none"

\* C27: a task's status changes either in a step of that task's own
\* run_task coroutine, which changes no other task's status, or in a step of
\* the loop taken while no coroutine of a wave is pending; and a task has at
\* most one coroutine: it is at most once in the semaphore's queue, and only
\* while it has not started.
C27_SingleWriter ==
    /\ [][\A t \in Scripts :
            status'[t] # status[t] =>
              \/ /\ taskPc[t] \in {"spawning", "communicating", "terminating"}
                 /\ taskPc'[t] # taskPc[t]
                 /\ \A u \in Scripts \ {t} : status'[u] = status[u]
              \/ runPc = "loop" /\ ~WaveInFlight]_vars
    /\ [](NoDuplicates(queue) /\ \A t \in Range(queue) : taskPc[t] = "queued")

\* C27 witness: two coroutines have each set their own task to running.
C27_Witness ==
    \E t, u \in Tasks :
        /\ t # u
        /\ taskPc[t] = "communicating" /\ status[t] = "running"
        /\ taskPc[u] = "communicating" /\ status[u] = "running"

\* C28: the Taskmaster never deletes a row of the run log table.
C28_NeverDeletes == deleted = 0


Unassigned == {t \in Tasks : status[t] = "unassigned"}

WaveCompletes == runPc = "wave" /\ runPc' = "loop"

UnforcedStore(k) ==
    store_calls' = store_calls + 1 /\ store_call'.task = k /\ ~store_call'.forced

\* C30: an unforced store() of a task whose store_status is success returns
\* False, stores no file, writes no log and leaves every task's log row and
\* the local file as they are.
C30_RepeatedStoreIsNoOp ==
    [][\A k \in DBTasks :
        (UnforcedStore(k) /\ store_status[k] = "success")
        => /\ store_ret' = "False"
           /\ uploads' = uploads
           /\ log_writes' = log_writes
           /\ store_status' = store_status
           /\ log_hash' = log_hash
           /\ stored_at' = stored_at
           /\ local_file' = local_file]_vars

\* C30 witness: after one successful store the same task's unforced store()
\* was called twice more and returned False.
C30_Witness ==
    /\ store_calls = 3 /\ uploads = 1 /\ log_writes = 1
    /\ store_ret = "False" /\ ~store_call.forced
    /\ store_call.task # 0
    /\ store_status[store_call.task] = "success"

\* the step is a load() call of task k
LoadStep(k) == load_calls' = load_calls + 1 /\ load_call'.task = k

\* the log rows are the same after the step as before
LogUnchanged ==
    /\ store_status' = store_status
    /\ load_status' = load_status
    /\ log_hash' = log_hash
    /\ stored_at' = stored_at
    /\ log_writes' = log_writes

\* C31: load() invokes the loader only when the task's store_status is
\* success; with store_status skipped it sets load_status to skipped and
\* returns False without loading; with any other store_status it raises
\* without invoking the loader and without changing the log.
C31_LoadNeedsStoreSuccess ==
    [][\A k \in DBTasks :
        LoadStep(k) =>
          /\ loads' # loads => store_status[k] = "success"
          /\ store_status[k] = "skipped" =>
                /\ load_status'[k] = "skipped"
                /\ load_ret' = "False"
                /\ loads' = loads
          /\ store_status[k] \notin {"success", "skipped"} =>
                /\ load_ret' = "raised"
                /\ loads' = loads
                /\ LogUnchanged]_vars

\* C31 witness: a task whose store was skipped was asked to load, which set
\* load_status to skipped and returned False with no loader invoked.
C31_Witness ==
    /\ load_call.task # 0
    /\ store_status[load_call.task] = "skipped"
    /\ load_status[load_call.task] = "skipped"
    /\ load_ret = "False"
    /\ loads = 0

\* every other task stored successfully before task k has been loaded
EarlierAllLoaded(k) ==
    \A j \in DBTasks \ {k} :
        (store_status[j] = "success" /\ stored_at[j] < stored_at[k])
        => load_status[j] = "success"

\* C32: an unforced load() of a stored task not yet loaded runs the loader
\* only if every task of the table and source that was successfully stored
\* before it has load_status success; otherwise it raises and loads nothing.
C32_LoadsInStoredOrder ==
    [][\A k \in DBTasks :
        (LoadStep(k) /\ ~load_call'.forced /\ store_status[k] = "success"
           /\ load_status[k] # "success" /\ ~EarlierAllLoaded(k))
        => (load_ret' = "raised" /\ loads' = loads)]_vars

\* the stored tasks of the table and source
StoredTasks == {k \in DBTasks : store_status[k] = "success"}

\* C37: whenever two or more tasks are stored and none of them is loaded,
\* an unforced load() of at least one of them can run to completion.
C37_NoLoadDeadlock ==
    (/\ Cardinality(StoredTasks) >= 2
     /\ \A k \in StoredTasks : load_status[k] # "success"
     /\ store_calls + load_calls < MaxCalls)
    => \E k \in StoredTasks : ENABLED (load(k, FALSE) /\ load_ret' = "True")

\* the status the claim expects dump_result to report for task k
ExpectedDump(k) ==
    IF store_status[k] = "success" /\ load_status[k] = "success" THEN "success"
    ELSE IF store_status[k] = "skipped" /\ load_status[k] = "skipped" THEN "skipped"
    ELSE "error"

\* C38: the status dump_result() reports is success only if store_status and
\* load_status are both success, skipped only if both are skipped, and error
\* otherwise.
C38_DumpReportsBoth ==
    dumped.task # 0 => dumped.status = ExpectedDump(dumped.task)

\* C33 as stated: no task's child process is spawned more than once.
C33_Original == \A t \in Scripts : spawnCount[t] <= 1

\* the spawns of the tasks in S beyond each task's first
RECURSIVE Respawns(_)
Respawns(S) ==
    IF S = {} THEN 0
    ELSE LET t == CHOOSE x \in S : TRUE
         IN (IF spawnCount[t] > 1 THEN spawnCount[t] - 1 ELSE 0) + Respawns(S \ {t})

\* C33 (amended): a child process is spawned only for an unassigned task,
\* one at a time; a task that was started becomes unassigned again only when
\* its own process exited with code 0 and a payload whose status field is
\* unassigned; and there are never more repeated spawns than such payloads.
C33_RespawnOnlyAfterUnassignedPayload ==
    /\ [][\A t \in Scripts :
            spawnCount'[t] # spawnCount[t]
            => spawnCount'[t] = spawnCount[t] + 1 /\ status[t] = "unassigned"]_vars
    /\ [][\A t \in Scripts :
            (status[t] # "unassigned" /\ status'[t] = "unassigned")
            => /\ Finishing(t)
               /\ returncode[t] = 0
               /\ stdout[t].block
               /\ stdout[t].status = "unassigned"]_vars
    /\ [](Respawns(Scripts) <= requeues)

\* C33 witness: a run has ended in which one task was spawned twice, after
\* its payload reported unassigned, and another, ended success or failed,
\* was spawned once.
C33_Witness ==
    /\ RunEnded
    /\ requeues = 1
    /\ \E t, u \in Tasks :
        /\ spawnCount[t] = 2
        /\ spawnCount[u] = 1 /\ status[u] \in {"success", "failed"}

\* a child of the wave has exited with a non-zero code and no exception has
\* been raised in the wave yet
FirstFailure ==
    /\ runPc = "wave"
    /\ pendingExc = "none"
    /\ \E t \in Scripts : proc[t] = "exited" /\ returncode[t] # 0

\* the wave is being ended by a task's failure
Halting == pendingExc = "AssertionError"

\* C34: in an unforced run the first non-zero exit of a task ends the run
\* with status halted: the exception that ends the wave is that task's
\* failure, no further wave is computed and no task is started any more,
\* every sibling whose child process is still alive when its coroutine is
\* cancelled ends terminated, and the run's final status is halted.
C34_FirstFailureHalts ==
    /\ [][(~forced /\ FirstFailure) => pendingExc' \in {"none", "AssertionError"}]_vars
    /\ [][(~forced /\ Halting) => (spawnCount' = spawnCount /\ runPc' # "loop")]_vars
    /\ [][\A t \in Scripts :
            (~forced /\ Halting /\ taskPc[t] # "cancelled" /\ taskPc'[t] = "cancelled"
               /\ (proc[t] = "alive" \/ taskPc[t] = "terminating"))
            => status'[t] = "terminated"]_vars
    /\ []((RunEnded /\ ~forced /\ Halting) => run_status = "halted")

\* the step is the end-of-run sweep
Sweep == runPc = "loop" /\ runPc' = "done" /\ run_status' = "finished"

\* C35 as stated: the sweep changes only unassigned tasks, to skipped, and in
\* a finished run every skipped task has a parent whose status is not
\* success.
C35_Original ==
    /\ [][Sweep => \A t \in Scripts :
            status'[t] # status[t]
            => status[t] = "unassigned" /\ status'[t] = "skipped"]_vars
    /\ [](Finished => \A t \in Tasks :
            status[t] = "skipped" => ~ParentsSucceeded(status, t))

\* C35 (amended): the sweep changes only unassigned tasks, to skipped; a task
\* becomes skipped only in the sweep, having a parent whose status is not
\* success, or when its own process exited with code 0 and a payload whose
\* status field is skipped; in a finished run every skipped task that was
\* never started has a parent whose status is not success.
C35_SweepSkipsOnlyBlocked ==
    /\ [][Sweep => \A t \in Scripts :
            status'[t] # status[t]
            => status[t] = "unassigned" /\ status'[t] = "skipped"]_vars
    /\ [][\A t \in Scripts :
            (status'[t] = "skipped" /\ status[t] # "skipped")
            => \/ Sweep /\ status[t] = "unassigned" /\ ~ParentsSucceeded(status', t)
               \/ /\ Finishing(t) /\ returncode[t] = 0 /\ stdout[t].block
                  /\ stdout[t].status = "skipped"]_vars
    /\ [](Finished => \A t \in Tasks :
            (status[t] = "skipped" /\ spawnCount[t] = 0) => ~ParentsSucceeded(status, t))

\* C35 witness: a finished run with a task swept to skipped below a parent
\* that did not succeed, and a task whose own payload reported skipped.
C35_Witness ==
    /\ Finished
    /\ \E t, u \in Tasks :
        /\ status[t] = "skipped" /\ spawnCount[t] = 0 /\ ~ParentsSucceeded(status, t)
        /\ status[u] = "skipped" /\ spawnCount[u] = 1 /\ ParentsSucceeded(status, u)

\* run() has written its run_args to the run log
ArgsLogged == runPc # "new" /\ runPc # "listing" /\ "run_args" \in run_log.keys

\* C39: the run_args recorded in the run log at run start have auto, forced,
\* only_run and max_tasks entries equal to the arguments run() was called
\* with.
C39_RunArgsAreTheArguments ==
    ArgsLogged =>
        /\ run_log.run_args.auto = auto
        /\ run_log.run_args.forced = forced
        /\ run_log.run_args.only_run = only_run
        /\ run_log.run_args.max_tasks = max_tasks

\* C36: merging a result payload into its task leaves the task's script
\* identifier, parents and children as they were, whatever the payload.
C36_MergeKeepsStructure ==
    [][(~merged /\ merged')
       => /\ task'.script = task.script
          /\ task'.parents = task.parents
          /\ task'.children = task.children]_vars

==========================================================================
